---- MODULE Spec2Model ----
(***************************************************************************)
(* Xpen ledger storage and traversal engine (src/xpen/backend/account.py,  *)
(* src/xpen/backend/observer.py): RecordFile, Account, RecordCursor.       *)
(*                                                                         *)
(* Python values are modelled as records:                                  *)
(*   Record        [tag, balance, date, note]   (date is a clock tick)     *)
(*   RecordFileKey [month_number, year_number]                             *)
(*   RecordFile    [key, records, dirty]                                   *)
(*   positions     [kind |-> "Oldest"], [kind |-> "Latest"],               *)
(*                 [kind |-> "Valid", record_file_index, record_index]     *)
(* Indices inside positions are 0-based as in the source; TLA+ sequences   *)
(* are 1-based, so every subscript adds one.                               *)
(***************************************************************************)
EXTENDS Integers, Sequences, FiniteSets, TLC

VARIABLES
    now,                  \* the wall clock: the last value datetime.now() returned
    disk,                 \* the account directory: file key -> pickled bytes
    record_files_by_key,  \* Account.__record_files_by_key, in dict insertion order
    record_file_keys,     \* Account.__record_file_keys
    observers,            \* Subject.__observers of the account
    cursor,               \* the RecordCursor under observation (or NoCursor)
    ret,                  \* what the last call returned or raised
    scan,                 \* position of the caller that drives a traversal loop
    log,                  \* results the traversal loop has collected so far
    listdir,              \* os.listdir of the directory an Account is built on
    fs,                   \* the application data folder: directory name -> files
    accounts,             \* every Account object built so far, by identity
    backend               \* Backend.__account_by_name and __current_working_account

\* the state of one account and of the callers of its cursor
account_vars == <<disk, record_files_by_key, record_file_keys, observers,
                  cursor, scan, log>>

\* the state of the Backend and of the data folder under it
backend_vars == <<listdir, fs, accounts, backend>>

vars == <<now, disk, record_files_by_key, record_file_keys, observers,
          cursor, ret, scan, log, listdir, fs, accounts, backend>>

-----------------------------------------------------------------------------
(* Bounds of the model *)

\* records a partition file found on disk at start-up holds at most
MaxInitLen == 1
\* records an account holds at most (add_record is disabled beyond it)
MaxRecords == 2

\* the calendar months the clock runs through, oldest first
Months == << [month_number |-> 12, year_number |-> 2023],
             [month_number |-> 1,  year_number |-> 2024],
             [month_number |-> 2,  year_number |-> 2024] >>

\* the month each clock tick 0, 1, 2, ... falls in, as an index into Months
Calendar == <<1, 2, 2, 3>>

MaxTime == Len(Calendar) - 1
Ticks == 0..MaxTime

\* what the callers pass to add_record: (tag, balance, note); "None" is None
Inputs == << [tag |-> "food", balance |-> 100, note |-> "None"],
             [tag |-> "None", balance |-> 80,  note |-> "refund"] >>

-----------------------------------------------------------------------------
(* The clock: datetime.now() / datetime.today() *)

month_of(t) == Months[Calendar[t + 1]].month_number
year_of(t) == Months[Calendar[t + 1]].year_number

\* the ticks of the m-th month, oldest first
RECURSIVE TicksFrom(_, _)
TicksFrom(m, t) ==
    IF t > MaxTime THEN <<>>
    ELSE IF Calendar[t + 1] = m THEN <<t>> \o TicksFrom(m, t + 1)
    ELSE TicksFrom(m, t + 1)

TicksOfMonth(m) == TicksFrom(m, 0)

RecordFileKey(m, y) == [month_number |-> m, year_number |-> y]

Record(tag, balance, date, note) ==
    [tag |-> tag, balance |-> balance, date |-> date, note |-> note]

-----------------------------------------------------------------------------
(* Sequences *)

Range(s) == { s[i] : i \in 1..Len(s) }

Last(s) == s[Len(s)]

RECURSIVE Reverse(_)
Reverse(s) == IF s = <<>> THEN <<>> ELSE Reverse(Tail(s)) \o <<Head(s)>>

\* list.index(x): the 0-based index of the first element equal to x, -1 if none
RECURSIVE IndexFrom(_, _, _)
IndexFrom(s, x, i) ==
    IF i > Len(s) THEN -1
    ELSE IF s[i] = x THEN i - 1
    ELSE IndexFrom(s, x, i + 1)

Index(s, x) == IndexFrom(s, x, 1)

\* all orderings of a finite set, as sequences without repetition
RECURSIVE Perms(_)
Perms(S) ==
    IF S = {} THEN { <<>> }
    ELSE UNION { { <<x>> \o p : p \in Perms(S \ {x}) } : x \in S }

-----------------------------------------------------------------------------
(* pickle: RecordFile.__save_to_file / RecordFile.__load_from_file *)

\* a pickle.dump that loses the optional note of every record
DumpWithoutNote(records) ==
    <<Len(records)>> \o
    [i \in 1..Len(records) |->
        <<records[i].tag, records[i].balance, records[i].date, "None">>]

\* pickle.dump(records): a length header, then one 4-tuple per record
Dump(records) ==
    <<Len(records)>> \o
    [i \in 1..Len(records) |->
        <<records[i].tag, records[i].balance, records[i].date, records[i].note>>]

\* whether pickle.load can read the bytes
Loadable(bytes) == Len(bytes) >= 1 /\ bytes[1] = Len(bytes) - 1

\* pickle.load(file) of loadable bytes
Load(bytes) ==
    [i \in 1..(Len(bytes) - 1) |->
        Record(bytes[i + 1][1], bytes[i + 1][2], bytes[i + 1][3], bytes[i + 1][4])]

\* RecordFile.__init__ raises CorruptedRecordFileError: the file of key k exists
\* in directory d and pickle.load fails on it
load_raises(d, k) == k \in DOMAIN d /\ ~Loadable(d[k])

\* the records RecordFile.__init__ starts with for key k in directory d
InitialRecords(d, k) == IF k \in DOMAIN d THEN Load(d[k]) ELSE <<>>

RecordFile(d, k) ==
    [kind |-> "RecordFile", key |-> k, records |-> InitialRecords(d, k),
     dirty |-> FALSE]

-----------------------------------------------------------------------------
(* Account *)

KeyLess(a, b) ==
    \/ a.year_number < b.year_number
    \/ a.year_number = b.year_number /\ a.month_number < b.month_number

\* list.sort(key=lambda x: (x.year_number, x.month_number)): stable insertion
RECURSIVE Insert(_, _)
Insert(sorted, k) ==
    IF sorted = <<>> THEN <<k>>
    ELSE IF KeyLess(k, Head(sorted)) THEN <<k>> \o sorted
    ELSE <<Head(sorted)>> \o Insert(Tail(sorted), k)

RECURSIVE SortKeys(_)
SortKeys(keys) ==
    IF keys = <<>> THEN <<>>
    ELSE Insert(SortKeys(SubSeq(keys, 1, Len(keys) - 1)), Last(keys))

\* list(self.__record_files_by_key.keys())
DictKeys(files) == [i \in 1..Len(files) |-> files[i].key]

\* the property Account.record_file_keys
record_file_keys_property(files, keys) == DictKeys(files)

\* key in self.__record_files_by_key
HasKey(files, k) == \E i \in 1..Len(files) : files[i].key = k

\* self.__record_files_by_key[k]
FileAt(files, k) == files[CHOOSE i \in 1..Len(files) : files[i].key = k]

\* a lookup that builds a new store on every call
files_after_new(files, d, k) == Append(files, RecordFile(d, k))

\* Account.get_record_file_or_default: the dict and the key list afterwards
files_after_get(files, d, k) ==
    IF HasKey(files, k) THEN files ELSE Append(files, RecordFile(d, k))

keys_after_get(files, keys, k) ==
    IF HasKey(files, k) THEN keys ELSE Append(keys, k)

\* the records of the file get_record_file_or_default(k) returns
RecordsOf(files, d, k) == FileAt(files_after_get(files, d, k), k).records

-----------------------------------------------------------------------------
(* Results of calls *)

None == [kind |-> "None"]

Raised(error) == [kind |-> "raise", error |-> error]

RecordDiff(record, diff) == [kind |-> "RecordDiff", record |-> record, diff |-> diff]

-----------------------------------------------------------------------------
(* RecordCursor: positions *)

OldestPosition == [kind |-> "Oldest"]

LatestPosition == [kind |-> "Latest"]

ValidPosition(record_file_index, record_index) ==
    [kind |-> "Valid", record_file_index |-> record_file_index,
     record_index |-> record_index]

NoCursor == [kind |-> "NoCursor"]

\* a backward loop that stops on the first record of a partition, not the last
RECURSIVE ScanBackwardToFirst(_, _, _, _)
ScanBackwardToFirst(files, d, keys, i) ==
    IF i < 0 THEN OldestPosition
    ELSE IF Len(RecordsOf(files, d, keys[i + 1])) > 0
         THEN ValidPosition(i, 0)
         ELSE ScanBackwardToFirst(files, d, keys, i - 1)

\* the loop `for i in range(start, -1, -1)` of __previous_position
RECURSIVE ScanBackward(_, _, _, _)
ScanBackward(files, d, keys, i) ==
    IF i < 0 THEN OldestPosition
    ELSE IF Len(RecordsOf(files, d, keys[i + 1])) > 0
         THEN ValidPosition(i, Len(RecordsOf(files, d, keys[i + 1])) - 1)
         ELSE ScanBackward(files, d, keys, i - 1)

\* a forward loop that stops on the next partition even when it is empty
ScanForwardNoSkip(files, d, keys, i) ==
    IF i >= Len(keys) THEN LatestPosition ELSE ValidPosition(i, 0)

\* the loop `for i in range(start, len(keys))` of __next_position
RECURSIVE ScanForward(_, _, _, _)
ScanForward(files, d, keys, i) ==
    IF i >= Len(keys) THEN LatestPosition
    ELSE IF Len(RecordsOf(files, d, keys[i + 1])) > 0
         THEN ValidPosition(i, 0)
         ELSE ScanForward(files, d, keys, i + 1)

\* the loop `for record_file_key in keys` of __next_position(OldestPosition)
RECURSIVE ScanFromOldest(_, _, _, _)
ScanFromOldest(files, d, keys, i) ==
    IF i >= Len(keys) THEN LatestPosition
    ELSE IF Len(RecordsOf(files, d, keys[i + 1])) > 0
         THEN ValidPosition(Index(keys, keys[i + 1]), 0)
         ELSE ScanFromOldest(files, d, keys, i + 1)

\* a backward step that wraps around from the before-oldest sentinel
previous_position_wraps(files, d, keys, position) ==
    CASE position.kind = "Oldest" -> ScanBackward(files, d, keys, Len(keys) - 1)
      [] position.kind = "Latest" -> ScanBackward(files, d, keys, Len(keys) - 1)
      [] position.kind = "Valid" ->
            IF position.record_index > 0
            THEN ValidPosition(position.record_file_index, position.record_index - 1)
            ELSE ScanBackward(files, d, keys, position.record_file_index - 1)

previous_position(files, d, keys, position) ==
    CASE position.kind = "Oldest" -> OldestPosition
      [] position.kind = "Latest" -> ScanBackward(files, d, keys, Len(keys) - 1)
      [] position.kind = "Valid" ->
            IF position.record_index > 0
            THEN ValidPosition(position.record_file_index, position.record_index - 1)
            ELSE ScanBackward(files, d, keys, position.record_file_index - 1)

next_position(files, d, keys, position) ==
    CASE position.kind = "Oldest" -> ScanFromOldest(files, d, keys, 0)
      [] position.kind = "Latest" -> LatestPosition
      [] position.kind = "Valid" ->
            IF position.record_index + 1
                  < Len(RecordsOf(files, d, keys[position.record_file_index + 1]))
            THEN ValidPosition(position.record_file_index, position.record_index + 1)
            ELSE ScanForward(files, d, keys, position.record_file_index + 1)

get_record_from_position(files, d, keys, valid_position) ==
    RecordsOf(files, d, keys[valid_position.record_file_index + 1])
        [valid_position.record_index + 1]

\* a balance lookup that treats every position like a sentinel
balance_always_zero(files, d, keys, position) == 0

get_balance_from_position(files, d, keys, position) ==
    CASE position.kind = "Oldest" -> 0
      [] position.kind = "Latest" -> 0
      [] position.kind = "Valid" ->
            get_record_from_position(files, d, keys, position).balance

-----------------------------------------------------------------------------
(* RecordCursor: construction and reads *)

\* RecordCursor.__init__ with OldestPosition() or LatestPosition()
RecordCursor(files, d, keys, position) ==
    [kind |-> "RecordCursor",
     record_file_keys |-> record_file_keys_property(files, keys),
     record_position |->
        IF position.kind = "Oldest"
        THEN next_position(files, d, record_file_keys_property(files, keys),
                           OldestPosition)
        ELSE previous_position(files, d, record_file_keys_property(files, keys),
                               LatestPosition),
     valid |-> TRUE]

\* RecordCursor.peek
peek(files, d, c) ==
    IF ~c.valid THEN Raised("InvalidatedRecordCursorError")
    ELSE IF c.record_position.kind = "Valid"
    THEN RecordDiff(
            get_record_from_position(files, d, c.record_file_keys, c.record_position),
            get_record_from_position(files, d, c.record_file_keys,
                                     c.record_position).balance
            - get_balance_from_position(files, d, c.record_file_keys,
                 previous_position(files, d, c.record_file_keys, c.record_position)))
    ELSE None

\* a peek that moves the cursor like previous()
after_peek_steps(files, d, c) ==
    IF ~c.valid THEN c
    ELSE [c EXCEPT !.record_position =
            previous_position(files, d, c.record_file_keys, c.record_position)]

\* the cursor after RecordCursor.peek: the method assigns none of its attributes
after_peek(files, d, c) == c

\* the cursor after RecordCursor.previous (unchanged when peek raises)
after_previous(files, d, c) ==
    IF ~c.valid THEN c
    ELSE [c EXCEPT !.record_position =
            previous_position(files, d, c.record_file_keys, c.record_position)]

\* the cursor after RecordCursor.next (unchanged when peek raises)
after_next(files, d, c) ==
    IF ~c.valid THEN c
    ELSE [c EXCEPT !.record_position =
            next_position(files, d, c.record_file_keys, c.record_position)]

\* a _response under which a second message makes the cursor valid again
response_toggle(c, message) ==
    IF message.kind = "NewRecordMessage" THEN [c EXCEPT !.valid = ~c.valid] ELSE c

\* RecordCursor._response(message)
response(c, message) ==
    IF message.kind = "NewRecordMessage" THEN [c EXCEPT !.valid = FALSE] ELSE c

\* Subject._notify: every subscribed observer gets the message
notify(subscribed, c, message) ==
    IF c.kind = "RecordCursor" /\ "cursor" \in Range(subscribed)
    THEN response(c, message)
    ELSE c

\* the property Account.current_balance
current_balance(files, d, keys) ==
    IF peek(files, d, RecordCursor(files, d, keys, LatestPosition)).kind = "RecordDiff"
    THEN peek(files, d, RecordCursor(files, d, keys, LatestPosition)).record.balance
    ELSE 0

-----------------------------------------------------------------------------
(* RecordFile and Account operations on the dict *)

\* RecordFile.add_record on the file of key k: append and mark dirty
file_add_record(files, k, new_record) ==
    [i \in 1..Len(files) |->
        IF files[i].key = k
        THEN [files[i] EXCEPT !.records = Append(@, new_record), !.dirty = TRUE]
        ELSE files[i]]

\* `if self.__dirty:` of RecordFile.cleanup: whether cleanup() of the file of
\* key k opens the partition file for writing
cleanup_writes(files, k) == FileAt(files, k).dirty

\* the dirty flag RecordFile.cleanup leaves behind
dirty_after_cleanup(was_dirty) == IF was_dirty THEN TRUE ELSE was_dirty

\* RecordFile.cleanup on the file of key k: the dict afterwards
files_after_cleanup(files, k) ==
    [i \in 1..Len(files) |->
        IF files[i].key = k
        THEN [files[i] EXCEPT !.dirty = dirty_after_cleanup(@)]
        ELSE files[i]]

\* RecordFile.__save_to_file: the directory after open(path, "wb") and pickle.dump
save_to_file(d, k, records) ==
    [f \in DOMAIN d \cup {k} |-> IF f = k THEN Dump(records) ELSE d[f]]

\* RecordFile.cleanup on the file of key k: the directory afterwards
disk_after_cleanup(files, d, k) ==
    IF cleanup_writes(files, k) THEN save_to_file(d, k, FileAt(files, k).records) ELSE d

\* the keys of a dict filled by `dict[key] = value` for each key in turn: a key
\* met again keeps its first place
RECURSIVE InsertionOrder(_)
InsertionOrder(keys) ==
    IF keys = <<>> THEN <<>>
    ELSE LET before == InsertionOrder(SubSeq(keys, 1, Len(keys) - 1))
         IN IF Last(keys) \in Range(before) THEN before
            ELSE Append(before, Last(keys))

\* Account.__init__: the dict built from the keys discovery returned
account_files(d, listing) ==
    [i \in 1..Len(InsertionOrder(listing)) |->
        RecordFile(d, InsertionOrder(listing)[i])]

\* Account.__init__: the sorted key list
account_keys(d, listing) == SortKeys(DictKeys(account_files(d, listing)))

NewRecordMessage(record) == [kind |-> "NewRecordMessage", record |-> record]

RECURSIVE SumLen(_, _)
SumLen(files, i) ==
    IF i > Len(files) THEN 0 ELSE Len(files[i].records) + SumLen(files, i + 1)

\* how many records the account holds
TotalRecords(files) == SumLen(files, 1)

-----------------------------------------------------------------------------
(* Start-up: the account directory found on disk *)

Min(a, b) == IF a < b THEN a ELSE b

\* the j-th record of the file of the m-th month
InitRecord(m, j) ==
    Record(Inputs[((m + j) % Len(Inputs)) + 1].tag,
           Inputs[((m + j) % Len(Inputs)) + 1].balance,
           TicksOfMonth(m)[Min(j, Len(TicksOfMonth(m)))],
           Inputs[((m + j) % Len(Inputs)) + 1].note)

InitFile(m, n) == [j \in 1..n |-> InitRecord(m, j)]

RECURSIVE SumOver(_, _)
SumOver(f, S) ==
    IF S = {} THEN 0
    ELSE LET x == CHOOSE y \in S : TRUE IN f[x] + SumOver(f, S \ {x})

\* the latest timestamp in the directory (0 when it holds no record)
LatestDate(lens) ==
    LET used == { InitRecord(m, lens[m]).date : m \in { x \in DOMAIN lens : lens[x] > 0 } }
    IN IF used = {} THEN 0 ELSE CHOOSE t \in used : \A u \in used : u <= t

\* the state after Account(directory) on a directory whose partition files
\* hold at most max_len records each
InitWith(max_len) ==
    \E present \in SUBSET (1..Len(Months)) :
      \E lens \in [present -> 0..max_len] :
        \E order \in Perms(present) :
          /\ SumOver(lens, present) <= MaxRecords
          /\ disk = [k \in { Months[m] : m \in present } |->
                        Dump(InitFile(CHOOSE m \in present : Months[m] = k,
                                      lens[CHOOSE m \in present : Months[m] = k]))]
          /\ record_files_by_key =
                account_files([k \in { Months[m] : m \in present } |->
                        Dump(InitFile(CHOOSE m \in present : Months[m] = k,
                                      lens[CHOOSE m \in present : Months[m] = k]))],
                    [i \in 1..Len(order) |-> Months[order[i]]])
          /\ record_file_keys =
                account_keys([k \in { Months[m] : m \in present } |->
                        Dump(InitFile(CHOOSE m \in present : Months[m] = k,
                                      lens[CHOOSE m \in present : Months[m] = k]))],
                    [i \in 1..Len(order) |-> Months[order[i]]])
          /\ now = LatestDate(lens)
          /\ observers = <<>>
          /\ cursor = NoCursor
          /\ ret = [op |-> "Account", arg |-> None, val |-> None]
          /\ scan = "none"
          /\ log = <<>>
          /\ listdir = <<>>
          /\ fs = <<>>
          /\ accounts = <<>>
          /\ backend = [account_by_name |-> <<>>, current_working_account |-> None]

Init == InitWith(MaxInitLen)

-----------------------------------------------------------------------------
(* Account operations *)

\* Account.add_record(tag, amount, note); t1, t2 are the two datetime.today()
\* reads that form the key, t3 the datetime.now() read that stamps the record
add_record(inp, t1, t2, t3) ==
    /\ scan = "none"
    /\ TotalRecords(record_files_by_key) < MaxRecords
    /\ now <= t1 /\ t1 <= t2 /\ t2 <= t3
    /\ record_files_by_key' =
          file_add_record(
              files_after_get(record_files_by_key, disk,
                              RecordFileKey(month_of(t1), year_of(t2))),
              RecordFileKey(month_of(t1), year_of(t2)),
              Record(inp.tag, inp.balance, t3, inp.note))
    /\ record_file_keys' =
          keys_after_get(record_files_by_key, record_file_keys,
                         RecordFileKey(month_of(t1), year_of(t2)))
    /\ cursor' = notify(observers, cursor,
                        NewRecordMessage(Record(inp.tag, inp.balance, t3, inp.note)))
    /\ ret' = [op |-> "add_record",
               arg |-> RecordFileKey(month_of(t1), year_of(t2)),
               val |-> Record(inp.tag, inp.balance, t3, inp.note)]
    /\ now' = t3
    /\ UNCHANGED backend_vars
    /\ UNCHANGED <<disk, observers, scan, log>>

\* Account.get_record_file_or_default(key); RecordFile(key, self) may raise
\* before anything is assigned
get_record_file_or_default(k) ==
    /\ scan = "none"
    /\ IF ~HasKey(record_files_by_key, k) /\ load_raises(disk, k)
       THEN /\ UNCHANGED <<record_files_by_key, record_file_keys>>
            /\ ret' = [op |-> "get_record_file_or_default", arg |-> k,
                       val |-> Raised("CorruptedRecordFileError")]
       ELSE /\ record_files_by_key' = files_after_get(record_files_by_key, disk, k)
            /\ record_file_keys' =
                  keys_after_get(record_files_by_key, record_file_keys, k)
            /\ ret' = [op |-> "get_record_file_or_default", arg |-> k,
                       val |-> FileAt(files_after_get(record_files_by_key, disk, k), k)]
    /\ UNCHANGED backend_vars
    /\ UNCHANGED <<now, disk, observers, cursor, scan, log>>

-----------------------------------------------------------------------------
(* RecordCursor operations *)

\* RecordCursor(account, OldestPosition() | LatestPosition())
NewCursor(position) ==
    /\ scan = "none"
    /\ cursor' = RecordCursor(record_files_by_key, disk, record_file_keys, position)
    /\ ret' = [op |-> "RecordCursor", arg |-> position, val |-> None]
    /\ UNCHANGED backend_vars
    /\ UNCHANGED <<now, disk, record_files_by_key, record_file_keys, observers,
                   scan, log>>

\* cursor.peek()
Peek ==
    /\ scan = "none"
    /\ cursor.kind = "RecordCursor"
    /\ ret' = [op |-> "peek", arg |-> None,
               val |-> peek(record_files_by_key, disk, cursor)]
    /\ cursor' = after_peek(record_files_by_key, disk, cursor)
    /\ UNCHANGED backend_vars
    /\ UNCHANGED <<now, disk, record_files_by_key, record_file_keys, observers,
                   scan, log>>

\* cursor.previous()
Previous ==
    /\ scan = "none"
    /\ cursor.kind = "RecordCursor"
    /\ ret' = [op |-> "previous", arg |-> None,
               val |-> peek(record_files_by_key, disk, cursor)]
    /\ cursor' = after_previous(record_files_by_key, disk, cursor)
    /\ UNCHANGED backend_vars
    /\ UNCHANGED <<now, disk, record_files_by_key, record_file_keys, observers,
                   scan, log>>

\* cursor.next()
NextRecord ==
    /\ scan = "none"
    /\ cursor.kind = "RecordCursor"
    /\ ret' = [op |-> "next", arg |-> None,
               val |-> peek(record_files_by_key, disk, cursor)]
    /\ cursor' = after_next(record_files_by_key, disk, cursor)
    /\ UNCHANGED backend_vars
    /\ UNCHANGED <<now, disk, record_files_by_key, record_file_keys, observers,
                   scan, log>>

-----------------------------------------------------------------------------
(* Traversal loops: a caller that builds a cursor and calls it in a loop,   *)
(* as _RecordList.__init__ does (`while True: cursor.previous()`).  The     *)
(* program is single-threaded, so nothing else runs until the loop ends.    *)

\* cursor = RecordCursor(account, position), then the loop begins
StartScan(position) ==
    /\ scan = "none"
    /\ cursor' = RecordCursor(record_files_by_key, disk, record_file_keys, position)
    /\ scan' = IF position.kind = "Latest" THEN "previous" ELSE "next"
    /\ log' = <<>>
    /\ ret' = [op |-> "RecordCursor", arg |-> position, val |-> None]
    /\ UNCHANGED backend_vars
    /\ UNCHANGED <<now, disk, record_files_by_key, record_file_keys, observers>>

\* one round of `while True: r = cursor.previous(); if r is None: break`
ScanPrevious ==
    /\ scan = "previous"
    /\ cursor' = after_previous(record_files_by_key, disk, cursor)
    /\ log' = Append(log, <<"previous", peek(record_files_by_key, disk, cursor)>>)
    /\ ret' = [op |-> "previous", arg |-> None,
               val |-> peek(record_files_by_key, disk, cursor)]
    /\ scan' = IF peek(record_files_by_key, disk, cursor).kind = "None"
               THEN "done" ELSE "previous"
    /\ UNCHANGED backend_vars
    /\ UNCHANGED <<now, disk, record_files_by_key, record_file_keys, observers>>

\* one round of `while True: r = cursor.next(); if r is None: break`; the
\* exhausted cursor is then walked backwards
ScanNext ==
    /\ scan = "next"
    /\ cursor' = after_next(record_files_by_key, disk, cursor)
    /\ log' = Append(log, <<"next", peek(record_files_by_key, disk, cursor)>>)
    /\ ret' = [op |-> "next", arg |-> None,
               val |-> peek(record_files_by_key, disk, cursor)]
    /\ scan' = IF peek(record_files_by_key, disk, cursor).kind = "None"
               THEN "back" ELSE "next"
    /\ UNCHANGED backend_vars
    /\ UNCHANGED <<now, disk, record_files_by_key, record_file_keys, observers>>

\* previous() on the cursor a forward loop exhausted, until it returns None at
\* the before-oldest sentinel
ScanBack ==
    /\ scan = "back"
    /\ cursor' = after_previous(record_files_by_key, disk, cursor)
    /\ log' = Append(log, <<"previous", peek(record_files_by_key, disk, cursor)>>)
    /\ ret' = [op |-> "previous", arg |-> None,
               val |-> peek(record_files_by_key, disk, cursor)]
    /\ scan' = IF /\ peek(record_files_by_key, disk, cursor).kind = "None"
                  /\ cursor.record_position.kind = "Oldest"
               THEN "done" ELSE "back"
    /\ UNCHANGED backend_vars
    /\ UNCHANGED <<now, disk, record_files_by_key, record_file_keys, observers>>

\* the caller drops what it collected
EndScan ==
    /\ scan = "done"
    /\ scan' = "none"
    /\ log' = <<>>
    /\ ret' = [op |-> "EndScan", arg |-> None, val |-> None]
    /\ UNCHANGED backend_vars
    /\ UNCHANGED <<now, disk, record_files_by_key, record_file_keys, observers,
                   cursor>>

-----------------------------------------------------------------------------
(* Persistence *)

\* RecordFile.cleanup() of the file of key k
cleanup(k) ==
    /\ scan = "none"
    /\ HasKey(record_files_by_key, k)
    /\ disk' = disk_after_cleanup(record_files_by_key, disk, k)
    /\ record_files_by_key' = files_after_cleanup(record_files_by_key, k)
    /\ ret' = [op |-> "cleanup", arg |-> k, val |-> None]
    /\ UNCHANGED backend_vars
    /\ UNCHANGED <<now, record_file_keys, observers, cursor, scan, log>>

\* RecordFile(key, account): a new store object for key k on the account's
\* directory (it is not registered in the account's dict)
NewRecordFile(k) ==
    /\ scan = "none"
    /\ ret' = [op |-> "RecordFile", arg |-> k,
               val |-> IF load_raises(disk, k)
                       THEN Raised("CorruptedRecordFileError")
                       ELSE RecordFile(disk, k)]
    /\ UNCHANGED backend_vars
    /\ UNCHANGED <<now, disk, record_files_by_key, record_file_keys, observers,
                   cursor, scan, log>>

-----------------------------------------------------------------------------
(* Specifications *)

AddRecord ==
    \E i \in 1..Len(Inputs) :
      \E t1 \in now..MaxTime : \E t2 \in t1..MaxTime : \E t3 \in t2..MaxTime :
         add_record(Inputs[i], t1, t2, t3)

\* the cursor API on a live account
Next ==
    \/ AddRecord
    \/ \E position \in {OldestPosition, LatestPosition} : NewCursor(position)
    \/ Peek
    \/ Previous
    \/ NextRecord

Spec == Init /\ [][Next]_vars

\* the account's partitions
NextAccount ==
    \/ AddRecord
    \/ \E m \in 1..Len(Months) : get_record_file_or_default(Months[m])

SpecAccount == Init /\ [][NextAccount]_vars

\* traversal loops over a cursor
NextScan ==
    \/ AddRecord
    \/ \E position \in {OldestPosition, LatestPosition} : StartScan(position)
    \/ ScanPrevious
    \/ ScanNext
    \/ ScanBack
    \/ EndScan

SpecScan == Init /\ [][NextScan]_vars

\* persistence of the partitions
NextStore ==
    \/ AddRecord
    \/ \E k \in Range(DictKeys(record_files_by_key)) : cleanup(k)
    \/ \E k \in Range(DictKeys(record_files_by_key)) : NewRecordFile(k)

SpecStore == Init /\ [][NextStore]_vars

\* the pages that list an account found on disk: nothing is appended while
\* they are built
NextTraverse ==
    \/ \E position \in {OldestPosition, LatestPosition} : StartScan(position)
    \/ ScanPrevious
    \/ ScanNext
    \/ ScanBack
    \/ EndScan

\* a traversal loop runs without interruption: each round is taken as long as
\* the loop has not reached its break
SpecTraverse ==
    /\ InitWith(MaxRecords)
    /\ [][NextTraverse]_vars
    /\ WF_vars(ScanPrevious)
    /\ WF_vars(ScanNext)
    /\ WF_vars(ScanBack)

-----------------------------------------------------------------------------
(* Loading partition files that the account did not write itself *)

\* what a partition file found in the directory may hold: a pickled list in
\* ascending date order, one in descending date order, an empty list, or bytes
\* pickle.load fails on (a file cut short)
FileContents ==
    { Dump(<<Record("food", 100, 0, "None"), Record("None", 80, 1, "refund")>>),
      Dump(<<Record("None", 80, 1, "refund"), Record("food", 100, 0, "None")>>),
      Dump(<<>>),
      <<2, <<"food", 100, 0, "None">>>> }

\* an account built on an empty directory; partition files have appeared in the
\* directory since
InitLoad ==
    \E present \in SUBSET Range(Months) :
      \E d \in [present -> FileContents] :
          /\ disk = d
          /\ record_files_by_key = <<>>
          /\ record_file_keys = <<>>
          /\ now = MaxTime
          /\ observers = <<>>
          /\ cursor = NoCursor
          /\ ret = [op |-> "Account", arg |-> None, val |-> None]
          /\ scan = "none"
          /\ log = <<>>
          /\ listdir = <<>>
          /\ fs = <<>>
          /\ accounts = <<>>
          /\ backend = [account_by_name |-> <<>>, current_working_account |-> None]

NextLoad ==
    \/ \E m \in 1..Len(Months) : get_record_file_or_default(Months[m])
    \/ \E m \in 1..Len(Months) : NewRecordFile(Months[m])

SpecLoad == InitLoad /\ [][NextLoad]_vars

-----------------------------------------------------------------------------
(* The application data folder and the Backend *)

\* Account objects built in one run are at most
MaxAccounts == 2

\* names are sequences of characters
Groceries == <<"G", "r", "o">>
Rent == <<"R", "e", "n", "t">>
MyDollar == <<"M", "y", "$">>
EmptyName == <<>>
\* "preference.dat", the file MainWindow keeps in the data folder
PreferenceFile == <<"p", "r", "e", "f", "e", "r", "e", "n", "c", "e", ".", "d", "a", "t">>

\* names the callers of the Backend pass
AccountNames == {Groceries, Rent, PreferenceFile}
\* names typed into the New Account dialog
TypedNames == {EmptyName, MyDollar, Groceries, Rent}

\* string.punctuation; the grave accent goes by its name
Punctuation ==
    {"!", "\"", "#", "$", "%", "&", "'", "(", ")", "*", "+", ",", "-", ".", "/",
     ":", ";", "<", "=", ">", "?", "@", "[", "\\", "]", "^", "_", "GRAVE ACCENT", "{", "|",
     "}", "~"}

\* a name check that only rejects the empty name
is_not_empty(name) == Len(name) > 0

\* _is_valid_account_name(name)
is_valid_account_name(name) ==
    IF \E i \in 1..Len(name) : name[i] \in Punctuation THEN FALSE ELSE Len(name) > 0

\* entries of the data folder: a plain file, or a directory of partition files
PlainFile == [kind |-> "file"]
Directory(files) == [kind |-> "dir", files |-> files]

\* os.path.exists / os.path.isdir of an entry of the data folder
path_exists(f, name) == name \in DOMAIN f
path_isdir(f, name) == name \in DOMAIN f /\ f[name].kind = "dir"

\* Account(account_path), given what os.listdir returned for the directory
Account(f, name, listing) ==
    [data_directory |-> name,
     record_files_by_key |-> account_files(f[name].files, listing),
     record_file_keys |-> account_keys(f[name].files, listing)]

\* a reference to the Account object of identity id
AccountRef(id) == [kind |-> "Account", id |-> id]

\* Account.name: os.path.basename(self.__data_directory)
account_name(a) == a.data_directory

\* a membership test that accepts every Account object
is_any_account(b, id) == TRUE

\* account in self.__account_by_name.values(); Account defines no __eq__, so
\* membership is by identity
is_tracked(b, id) ==
    \E n \in DOMAIN b.account_by_name : b.account_by_name[n] = id

\* list(self.__account_by_name.values()), as the set of identities
map_values(b) == { b.account_by_name[n] : n \in DOMAIN b.account_by_name }

\* self.__account_by_name.get(name, None)
map_get(b, name) ==
    IF name \in DOMAIN b.account_by_name
    THEN AccountRef(b.account_by_name[name])
    ELSE None

\* del self.__account_by_name[name]
map_del(m, name) == [n \in DOMAIN m \ {name} |-> m[n]]

\* self.__account_by_name[name] = id
map_set(m, name, id) == [n \in DOMAIN m \cup {name} |-> IF n = name THEN id ELSE m[n]]

\* a reload that builds an Account for every sub-directory, tracked or not
every_folder(b, f) == { n \in DOMAIN f : path_isdir(f, n) }

\* Backend.reload_accounts: the sub-directories it builds an Account for
new_folders(b, f) ==
    { n \in DOMAIN f : path_isdir(f, n) /\ n \notin DOMAIN b.account_by_name }

\* the order in which reload_accounts meets the new sub-directories; it only
\* decides which identity each new object gets
folder_order(b, f) == CHOOSE order \in Perms(new_folders(b, f)) : TRUE

\* what os.listdir may return for each new sub-directory
Listings(b, f) ==
    { ls \in [new_folders(b, f) ->
                UNION { Perms(DOMAIN f[n].files) : n \in new_folders(b, f) }] :
        \A n \in new_folders(b, f) : ls[n] \in Perms(DOMAIN f[n].files) }

\* Backend.reload_accounts: the Account objects and the map afterwards
accounts_after_reload(accs, b, f, ls) ==
    accs \o [i \in 1..Len(folder_order(b, f)) |->
                Account(f, folder_order(b, f)[i], ls[folder_order(b, f)[i]])]

backend_after_reload(accs, b, f) ==
    [b EXCEPT !.account_by_name =
        [n \in DOMAIN b.account_by_name \cup new_folders(b, f) |->
            IF n \in new_folders(b, f)
            THEN Len(accs) + Index(folder_order(b, f), n) + 1
            ELSE b.account_by_name[n]]]

\* whether the model has identities left for the objects a reload builds
can_reload(accs, b, f) == Len(accs) + Cardinality(new_folders(b, f)) <= MaxAccounts

\* a rename that marks no store dirty
none_dirty(files) == files

\* RecordFile.make_dirty on every store of the account
all_dirty(files) == [i \in 1..Len(files) |-> [files[i] EXCEPT !.dirty = TRUE]]

\* os.rename(old, new) of a directory raises: old is gone, new is a plain file,
\* or new is another directory that is not empty
os_rename_raises(f, old, new) ==
    \/ ~path_isdir(f, old)
    \/ /\ path_exists(f, new)
       /\ new # old
       /\ \/ f[new].kind = "file"
          \/ DOMAIN f[new].files # {}

\* os.rename(old, new) onto another, empty directory: replaced on POSIX, an
\* error on Windows
os_rename_platform(f, old, new) ==
    /\ path_isdir(f, old)
    /\ path_isdir(f, new)
    /\ new # old
    /\ DOMAIN f[new].files = {}

\* the data folder after a successful os.rename(old, new)
fs_after_rename(f, old, new) ==
    [n \in (DOMAIN f \ {old}) \cup {new} |-> IF n = new THEN f[old] ELSE f[n]]

\* shutil.rmtree(path)
fs_after_rmtree(f, name) == [n \in DOMAIN f \ {name} |-> f[n]]

\* os.makedirs(path)
fs_after_makedirs(f, name) ==
    [n \in DOMAIN f \cup {name} |-> IF n = name THEN Directory(<<>>) ELSE f[n]]

\* the data folder a run starts on: preference.dat, and any of the account
\* directories of earlier runs, each empty or holding one partition file
InitBackend ==
    \E dirs \in SUBSET {Groceries, Rent} :
      \E with_file \in SUBSET dirs :
          /\ fs = [n \in dirs \cup {PreferenceFile} |->
                      IF n = PreferenceFile THEN PlainFile
                      ELSE IF n \in with_file
                           THEN Directory(Months[1] :> Dump(InitFile(1, 1)))
                           ELSE Directory(<<>>)]
          /\ accounts = <<>>
          /\ backend = [account_by_name |-> <<>>, current_working_account |-> None]
          /\ listdir = <<>>
          /\ ret = [op |-> "Backend", arg |-> None, val |-> None]
          /\ now = MaxTime
          /\ disk = <<>>
          /\ record_files_by_key = <<>>
          /\ record_file_keys = <<>>
          /\ observers = <<>>
          /\ cursor = NoCursor
          /\ scan = "none"
          /\ log = <<>>

\* Backend.reload_accounts()
reload_accounts ==
    /\ can_reload(accounts, backend, fs)
    /\ \E ls \in Listings(backend, fs) :
          accounts' = accounts_after_reload(accounts, backend, fs, ls)
    /\ backend' = backend_after_reload(accounts, backend, fs)
    /\ ret' = [op |-> "reload_accounts", arg |-> None, val |-> None]
    /\ UNCHANGED <<now, fs, listdir>>
    /\ UNCHANGED account_vars

\* Backend.get_accounts()
get_accounts ==
    /\ can_reload(accounts, backend, fs)
    /\ \E ls \in Listings(backend, fs) :
          accounts' = accounts_after_reload(accounts, backend, fs, ls)
    /\ backend' = backend_after_reload(accounts, backend, fs)
    /\ ret' = [op |-> "get_accounts", arg |-> None,
               val |-> map_values(backend_after_reload(accounts, backend, fs))]
    /\ UNCHANGED <<now, fs, listdir>>
    /\ UNCHANGED account_vars

\* Backend.get_account_by_name(name)
get_account_by_name(name) ==
    /\ can_reload(accounts, backend, fs)
    /\ \E ls \in Listings(backend, fs) :
          accounts' = accounts_after_reload(accounts, backend, fs, ls)
    /\ backend' = backend_after_reload(accounts, backend, fs)
    /\ ret' = [op |-> "get_account_by_name", arg |-> name,
               val |-> map_get(backend_after_reload(accounts, backend, fs), name)]
    /\ UNCHANGED <<now, fs, listdir>>
    /\ UNCHANGED account_vars

\* backend.current_working_account = account
set_current_working_account(id) ==
    /\ IF ~is_tracked(backend, id)
       THEN /\ ret' = [op |-> "current_working_account", arg |-> id,
                       val |-> Raised("InvalidAccountError")]
            /\ UNCHANGED backend
       ELSE /\ ret' = [op |-> "current_working_account", arg |-> id, val |-> None]
            /\ backend' = [backend EXCEPT !.current_working_account = AccountRef(id)]
    /\ UNCHANGED <<now, fs, listdir, accounts>>
    /\ UNCHANGED account_vars

\* Backend.rename_account(account, new_account_name); posix tells which
\* platform's os.rename runs
rename_account(id, new, posix) ==
    /\ IF ~is_tracked(backend, id)
       THEN /\ ret' = [op |-> "rename_account", arg |-> <<id, new>>,
                       val |-> Raised("InvalidAccountError")]
            /\ UNCHANGED <<backend, accounts, fs>>
       ELSE IF new \in DOMAIN backend.account_by_name
       THEN /\ ret' = [op |-> "rename_account", arg |-> <<id, new>>,
                       val |-> Raised("AccountRenameConflictError")]
            /\ UNCHANGED <<backend, accounts, fs>>
       ELSE IF account_name(accounts[id]) \notin DOMAIN backend.account_by_name
       THEN \* del self.__account_by_name[account.name]
            /\ ret' = [op |-> "rename_account", arg |-> <<id, new>>,
                       val |-> Raised("KeyError")]
            /\ UNCHANGED <<backend, accounts, fs>>
       ELSE /\ backend' =
                  [backend EXCEPT !.account_by_name =
                      map_set(map_del(@, account_name(accounts[id])), new, id)]
            /\ IF \/ os_rename_raises(fs, accounts[id].data_directory, new)
                  \/ os_rename_platform(fs, accounts[id].data_directory, new) /\ ~posix
               THEN \* Account.__rename stops at os.rename
                    /\ ret' = [op |-> "rename_account", arg |-> <<id, new>>,
                               val |-> Raised("OSError")]
                    /\ UNCHANGED <<accounts, fs>>
               ELSE /\ ret' = [op |-> "rename_account", arg |-> <<id, new>>,
                               val |-> None]
                    /\ fs' = fs_after_rename(fs, accounts[id].data_directory, new)
                    /\ accounts' =
                          [accounts EXCEPT
                              ![id].data_directory = new,
                              ![id].record_files_by_key = all_dirty(@)]
    /\ UNCHANGED <<now, listdir>>
    /\ UNCHANGED account_vars

\* the map, the objects and the data folder after the reload that
\* delete_account begins with, and then the deletion
delete_account(id) ==
    /\ can_reload(accounts, backend, fs)
    /\ \E ls \in Listings(backend, fs) :
          accounts' = accounts_after_reload(accounts, backend, fs, ls)
    /\ IF ~is_tracked(backend_after_reload(accounts, backend, fs), id)
       THEN /\ ret' = [op |-> "delete_account", arg |-> id,
                       val |-> Raised("InvalidAccountError")]
            /\ backend' = backend_after_reload(accounts, backend, fs)
            /\ UNCHANGED fs
       ELSE IF account_name(accounts[id])
                 \notin DOMAIN backend_after_reload(accounts, backend, fs).account_by_name
       THEN \* del self.__account_by_name[account.name]
            /\ ret' = [op |-> "delete_account", arg |-> id,
                       val |-> Raised("KeyError")]
            /\ backend' = backend_after_reload(accounts, backend, fs)
            /\ UNCHANGED fs
       ELSE /\ backend' =
                  [backend_after_reload(accounts, backend, fs) EXCEPT
                      !.account_by_name = map_del(@, account_name(accounts[id]))]
            /\ IF path_isdir(fs, account_name(accounts[id]))
               THEN /\ ret' = [op |-> "delete_account", arg |-> id, val |-> None]
                    /\ fs' = fs_after_rmtree(fs, account_name(accounts[id]))
               ELSE \* rmtree of a path that is no directory
                    /\ ret' = [op |-> "delete_account", arg |-> id,
                               val |-> Raised("OSError")]
                    /\ UNCHANGED fs
    /\ UNCHANGED <<now, listdir>>
    /\ UNCHANGED account_vars

ErrorDialog(message) == [kind |-> "ErrorDialog", message |-> message]

\* _Content.__account_created_handler(account_name, dialog)
account_created_handler(name) ==
    /\ IF name = EmptyName
       THEN /\ ret' = [op |-> "account_created_handler", arg |-> name,
                       val |-> ErrorDialog("Account Name Cannot Be Empty")]
            /\ UNCHANGED <<fs, accounts, backend>>
       ELSE IF ~is_valid_account_name(name)
       THEN /\ ret' = [op |-> "account_created_handler", arg |-> name,
                       val |-> ErrorDialog("Invalid Account Name")]
            /\ UNCHANGED <<fs, accounts, backend>>
       ELSE IF path_exists(fs, name)
       THEN /\ ret' = [op |-> "account_created_handler", arg |-> name,
                       val |-> ErrorDialog("Account Already Exists")]
            /\ UNCHANGED <<fs, accounts, backend>>
       ELSE \* os.makedirs, then __show_account_page calls get_accounts()
            /\ can_reload(accounts, backend, fs_after_makedirs(fs, name))
            /\ fs' = fs_after_makedirs(fs, name)
            /\ \E ls \in Listings(backend, fs_after_makedirs(fs, name)) :
                  accounts' = accounts_after_reload(
                                  accounts, backend, fs_after_makedirs(fs, name), ls)
            /\ backend' = backend_after_reload(
                              accounts, backend, fs_after_makedirs(fs, name))
            /\ ret' = [op |-> "account_created_handler", arg |-> name, val |-> None]
    /\ UNCHANGED <<now, listdir>>
    /\ UNCHANGED account_vars

\* RecordFile.cleanup() of the store of key k of the Account object id; the
\* path is formed from the account's directory at the time of the call
account_cleanup(id, k) ==
    /\ HasKey(accounts[id].record_files_by_key, k)
    /\ IF ~cleanup_writes(accounts[id].record_files_by_key, k)
       THEN /\ ret' = [op |-> "cleanup", arg |-> <<id, k>>, val |-> None]
            /\ UNCHANGED <<fs, accounts>>
       ELSE IF ~path_isdir(fs, accounts[id].data_directory)
       THEN \* open(path, "wb") in a directory that is gone
            /\ ret' = [op |-> "cleanup", arg |-> <<id, k>>, val |-> Raised("OSError")]
            /\ UNCHANGED <<fs, accounts>>
       ELSE /\ ret' = [op |-> "cleanup", arg |-> <<id, k>>, val |-> None]
            /\ fs' = [fs EXCEPT ![accounts[id].data_directory].files =
                         disk_after_cleanup(accounts[id].record_files_by_key, @, k)]
            /\ accounts' = [accounts EXCEPT ![id].record_files_by_key =
                               files_after_cleanup(@, k)]
    /\ UNCHANGED <<now, listdir, backend>>
    /\ UNCHANGED account_vars

NextBackend ==
    \/ reload_accounts
    \/ get_accounts
    \/ \E name \in AccountNames : get_account_by_name(name)
    \/ \E id \in 1..Len(accounts) : set_current_working_account(id)
    \/ \E id \in 1..Len(accounts) : \E new \in AccountNames : \E posix \in BOOLEAN :
          rename_account(id, new, posix)
    \/ \E id \in 1..Len(accounts) : delete_account(id)
    \/ \E name \in TypedNames : account_created_handler(name)
    \/ \E id \in 1..Len(accounts) :
          \E k \in Range(DictKeys(accounts[id].record_files_by_key)) :
             account_cleanup(id, k)

SpecBackend == InitBackend /\ [][NextBackend]_vars

-----------------------------------------------------------------------------
(* Discovery of partition files: Account.__search_available_record_files *)

\* directory entries Account.__init__ meets at most
MaxListing == 2

DigitChars == {"0", "1", "2", "3", "4", "5", "6", "7", "8", "9"}

DigitValue ==
    "0" :> 0 @@ "1" :> 1 @@ "2" :> 2 @@ "3" :> 3 @@ "4" :> 4 @@
    "5" :> 5 @@ "6" :> 6 @@ "7" :> 7 @@ "8" :> 8 @@ "9" :> 9

\* the number a run of decimal digits denotes
RECURSIVE DecimalValue(_)
DecimalValue(digits) ==
    IF digits = <<>> THEN 0
    ELSE 10 * DecimalValue(SubSeq(digits, 1, Len(digits) - 1))
         + DigitValue[Last(digits)]

\* str(n) inside the f-string that forms a partition file name
RECURSIVE py_str(_)
py_str(n) ==
    IF n < 10 THEN <<CHOOSE c \in DigitChars : DigitValue[c] = n>>
    ELSE py_str(n \div 10) \o <<CHOOSE c \in DigitChars : DigitValue[c] = n % 10>>

\* name.endswith(suffix)
endswith(name, suffix) ==
    /\ Len(name) >= Len(suffix)
    /\ SubSeq(name, Len(name) - Len(suffix) + 1, Len(name)) = suffix

\* name.removesuffix(suffix)
removesuffix(name, suffix) ==
    IF endswith(name, suffix) /\ Len(suffix) > 0
    THEN SubSeq(name, 1, Len(name) - Len(suffix))
    ELSE name

\* name.split(sep) for a one-character separator
RECURSIVE split(_, _)
split(name, sep) ==
    IF \A i \in 1..Len(name) : name[i] # sep THEN <<name>>
    ELSE LET i == CHOOSE x \in 1..Len(name) :
                     name[x] = sep /\ \A y \in 1..(x - 1) : name[y] # sep
         IN <<SubSeq(name, 1, i - 1)>> \o split(SubSeq(name, i + 1, Len(name)), sep)

\* str.strip() of the blanks int() ignores around a literal
RECURSIVE strip(_)
strip(text) ==
    IF text # <<>> /\ Head(text) = " " THEN strip(Tail(text))
    ELSE IF text # <<>> /\ Last(text) = " " THEN strip(SubSeq(text, 1, Len(text) - 1))
    ELSE text

ValueError == [ok |-> FALSE]
Parsed(value) == [ok |-> TRUE, value |-> value]

\* int(text): blanks around the literal are ignored, one sign is allowed, the
\* rest must be decimal digits
py_int(text) ==
    LET body == strip(text)
        signed == body # <<>> /\ Head(body) \in {"+", "-"}
        digits == IF signed THEN Tail(body) ELSE body
    IN IF digits = <<>> \/ \E i \in 1..Len(digits) : digits[i] \notin DigitChars
       THEN ValueError
       ELSE IF signed /\ Head(body) = "-"
            THEN Parsed(0 - DecimalValue(digits))
            ELSE Parsed(DecimalValue(digits))

\* datetime(year, month, 1) raises
datetime_raises(year, month) ==
    year < 1 \/ year > 9999 \/ month < 1 \/ month > 12

DotDat == <<".", "d", "a", "t">>

\* one round of the loop of __search_available_record_files: the keys the
\* entry adds (none when it is skipped)
keys_of_entry(entry) ==
    IF ~(endswith(entry.name, DotDat) \/ entry.isfile) THEN <<>>
    ELSE LET tokens == split(removesuffix(entry.name, DotDat), "_")
         IN IF Len(tokens) # 2 THEN <<>>
            ELSE IF Len(tokens[1]) = 0 \/ Len(tokens[2]) = 0 THEN <<>>
            ELSE IF tokens[1][1] = "0" \/ tokens[2][1] = "0" THEN <<>>
            ELSE IF ~py_int(tokens[1]).ok \/ ~py_int(tokens[2]).ok THEN <<>>
            ELSE IF datetime_raises(py_int(tokens[1]).value, py_int(tokens[2]).value)
                 THEN <<>>
            ELSE <<RecordFileKey(py_int(tokens[2]).value, py_int(tokens[1]).value)>>

\* Account.__search_available_record_files over what os.listdir returned
RECURSIVE search_available_record_files(_)
search_available_record_files(entries) ==
    IF entries = <<>> THEN <<>>
    ELSE keys_of_entry(Head(entries)) \o search_available_record_files(Tail(entries))

\* RecordFile.get_record_file_path: the file name of a key
record_file_name(k) == py_str(k.year_number) \o <<"_">> \o py_str(k.month_number) \o DotDat

\* the month tokens of the file names a directory may hold
MonthTokens ==
    { <<"1">>, <<"0", "1">>, <<"1", "3">>, <<>>, <<"x">>,
      <<"+", "1">>, <<" ", "1">>, <<"-", "1">> }

\* the file names a directory may hold
FileNames ==
    { <<"2", "0", "2", "4", "_">> \o m \o DotDat : m \in MonthTokens }
    \cup { <<"2", "0", "2", "3", "_", "1", "2">> \o DotDat,
           <<"2", "0", "2", "4">> \o DotDat,
           <<"2", "0", "2", "4", "_", "1", "_", "1">> \o DotDat,
           <<"2", "0", "2", "4", "_", "1">>,
           <<"2", "0", "2", "4", "_", "1", ".", "t", "x", "t">> }

\* what os.listdir may return, each name with what os.path.isfile(name) says
\* about it (the name is looked up in the working directory of the process)
ListdirChoices ==
    UNION { { [i \in 1..n |-> [name |-> names[i], isfile |-> flags[i]]] :
                 names \in { l \in [1..n -> FileNames] :
                                \A a, b \in 1..n : a # b => l[a] # l[b] },
                 flags \in [1..n -> BOOLEAN] } :
            n \in 1..MaxListing }

\* the partition files of a listed directory: every entry named as
\* get_record_file_path names a key is a saved, empty partition
disk_of(entries) ==
    LET named == { k \in { RecordFileKey(m, y) : m \in 1..12, y \in {2023, 2024} } :
                      \E i \in 1..Len(entries) : entries[i].name = record_file_name(k) }
    IN [k \in named |-> Dump(<<>>)]

InitDiscovery ==
    /\ now = MaxTime
    /\ listdir \in ListdirChoices
    /\ disk = disk_of(listdir)
    /\ record_files_by_key = <<>>
    /\ record_file_keys = <<>>
    /\ observers = <<>>
    /\ cursor = NoCursor
    /\ scan = "none"
    /\ log = <<>>
    /\ fs = <<>>
    /\ accounts = <<>>
    /\ backend = [account_by_name |-> <<>>, current_working_account |-> None]
    /\ ret = [op |-> "listdir", arg |-> None, val |-> None]

\* Account.__init__ on the listed directory
Account_init ==
    /\ ret.op = "listdir"
    /\ record_file_keys' = account_keys(disk, search_available_record_files(listdir))
    /\ record_files_by_key' = account_files(disk, search_available_record_files(listdir))
    /\ ret' = [op |-> "Account.__init__", arg |-> None,
               val |-> search_available_record_files(listdir)]
    /\ UNCHANGED <<now, disk, observers, cursor, scan, log, listdir, fs, accounts, backend>>

\* Account.get_record_file_or_default on the constructed account
get_discovered(k) ==
    /\ ret.op # "listdir"
    /\ get_record_file_or_default(k)

NextDiscovery ==
    \/ Account_init
    \/ \E k \in {RecordFileKey(1, 2024), RecordFileKey(12, 2023)} : get_discovered(k)

SpecDiscovery == InitDiscovery /\ [][NextDiscovery]_vars

\* a token written as a plain decimal numeral: digits only, no leading zero
PlainDecimal(token) ==
    /\ token # <<>>
    /\ \A i \in 1..Len(token) : token[i] \in DigitChars
    /\ token[1] # "0"

\* the entry is named <year>_<month>.dat, split at its u-th character, with
\* plain decimal tokens that form a calendar month
NamesMonth(name, u) ==
    /\ Len(name) >= u + 4
    /\ name[u] = "_"
    /\ SubSeq(name, Len(name) - 3, Len(name)) = <<".", "d", "a", "t">>
    /\ PlainDecimal(SubSeq(name, 1, u - 1))
    /\ PlainDecimal(SubSeq(name, u + 1, Len(name) - 4))
    /\ DecimalValue(SubSeq(name, 1, u - 1)) \in 1..9999
    /\ DecimalValue(SubSeq(name, u + 1, Len(name) - 4)) \in 1..12

\* the keys the well-named entries of a listing stand for
NamedKeys(entries) ==
    { RecordFileKey(DecimalValue(SubSeq(entries[p[1]].name, p[2] + 1,
                                        Len(entries[p[1]].name) - 4)),
                    DecimalValue(SubSeq(entries[p[1]].name, 1, p[2] - 1))) :
        p \in { q \in (1..Len(entries)) \X (1..12) :
                   NamesMonth(entries[q[1]].name, q[2]) } }

\* C19: the partitions an account discovers on construction are exactly those
\* of the directory's files named <year>_<month>.dat whose two tokens are
\* non-empty plain decimal integers without a leading zero forming a calendar
\* month; every other entry is skipped.
C19_DiscoveredKeys ==
    ret.op = "Account.__init__" => Range(record_file_keys) = NamedKeys(listdir)

-----------------------------------------------------------------------------
(* Properties *)

CursorCalls == {"peek", "next", "previous"}

\* C1: once add_record has run on the account, a cursor that was built before
\* that call raises InvalidatedRecordCursorError from its next peek(), next()
\* or previous().  (In a state whose last call was add_record, an existing
\* cursor was necessarily built before it.)
C1_CursorBuiltBeforeAddRaises ==
    [][(/\ ret.op = "add_record"
        /\ cursor.kind = "RecordCursor"
        /\ ret'.op \in CursorCalls)
       => ret'.val = Raised("InvalidatedRecordCursorError")]_vars

\* the keys of the partitions that hold at least one record
NonEmptyKeys(files) == { files[i].key : i \in { j \in 1..Len(files) : files[j].records # <<>> } }

\* the oldest and the latest of a non-empty set of keys, by (year, month)
OldestKey(S) == CHOOSE k \in S : \A other \in S \ {k} : KeyLess(k, other)
LatestKey(S) == CHOOSE k \in S : \A other \in S \ {k} : KeyLess(other, k)

\* the cursor is in the state RecordCursor(account, LatestPosition()) builds now
FreshLatest ==
    cursor = RecordCursor(record_files_by_key, disk, record_file_keys, LatestPosition)

\* the records of the only partition that holds any
OnlyRecords == FileAt(record_files_by_key,
                      CHOOSE k \in NonEmptyKeys(record_files_by_key) : TRUE).records

\* C3: when all the records of the account were appended to one partition,
\* peek() on a freshly built Latest cursor returns the most recently appended
\* record, with diff = its balance minus the balance of the record before it,
\* or its balance itself when it is the only record.
C3_LatestPeekSinglePartition ==
    (/\ ret.op = "peek"
     /\ FreshLatest
     /\ Cardinality(NonEmptyKeys(record_files_by_key)) = 1)
    => ret.val = RecordDiff(
                    Last(OnlyRecords),
                    IF Len(OnlyRecords) = 1
                    THEN Last(OnlyRecords).balance
                    ELSE Last(OnlyRecords).balance
                         - OnlyRecords[Len(OnlyRecords) - 1].balance)

\* C3 witness: two appends to one partition, then peek() on a fresh Latest cursor
C3_Witness ==
    /\ ret.op = "peek"
    /\ FreshLatest
    /\ Cardinality(NonEmptyKeys(record_files_by_key)) = 1
    /\ Len(OnlyRecords) >= 2
    /\ Len(record_files_by_key) = 1
    /\ record_files_by_key[1].dirty
    /\ disk = <<>>
    /\ ret.val.diff = Last(OnlyRecords).balance - OnlyRecords[Len(OnlyRecords) - 1].balance
    /\ ret.val.diff # 0

\* C8: a cursor built on an account without records rests on a sentinel
\* (Latest on before-oldest, Oldest on after-latest) and peek() is None;
\* otherwise an Oldest cursor is on the first record of the oldest non-empty
\* partition and a Latest cursor on the last record of the latest one.
C8_ConstructionResolves ==
    ret.op = "RecordCursor"
    => IF TotalRecords(record_files_by_key) = 0
       THEN /\ cursor.record_position =
                  (IF ret.arg = LatestPosition THEN OldestPosition ELSE LatestPosition)
            /\ peek(record_files_by_key, disk, cursor) = None
       ELSE /\ cursor.record_position.kind = "Valid"
            /\ IF ret.arg = OldestPosition
               THEN /\ cursor.record_file_keys[cursor.record_position.record_file_index + 1]
                          = OldestKey(NonEmptyKeys(record_files_by_key))
                    /\ cursor.record_position.record_index = 0
               ELSE /\ cursor.record_file_keys[cursor.record_position.record_file_index + 1]
                          = LatestKey(NonEmptyKeys(record_files_by_key))
                    /\ cursor.record_position.record_index =
                          Len(FileAt(record_files_by_key,
                                     LatestKey(NonEmptyKeys(record_files_by_key))).records) - 1

-----------------------------------------------------------------------------
(* Properties of traversal loops *)

\* the results the loop collected from the calls of one method, in call order
RECURSIVE ResultsOf(_, _)
ResultsOf(entries, op) ==
    IF entries = <<>> THEN <<>>
    ELSE (IF Head(entries)[1] = op THEN <<Head(entries)[2]>> ELSE <<>>)
         \o ResultsOf(Tail(entries), op)

\* the results before the first None
RECURSIVE UntilNone(_)
UntilNone(results) ==
    IF results = <<>> \/ Head(results) = None THEN <<>>
    ELSE <<Head(results)>> \o UntilNone(Tail(results))

\* a loop of previous() calls on a cursor built with LatestPosition has ended
BackwardScanDone == scan = "done" /\ log # <<>> /\ log[1][1] = "previous"

\* a loop of next() calls on a cursor built with OldestPosition has ended, and
\* so has the walk back over the exhausted cursor
ForwardBackDone == scan = "done" /\ log # <<>> /\ log[1][1] = "next"

\* C2: on an account of N records, N successive previous() calls on a Latest
\* cursor return the records from newest to oldest, each with diff = its
\* balance minus the balance of the record before it in time (0 for the
\* oldest); the call after them returns None.
C2_PreviousNewestToOldest ==
    BackwardScanDone
    => /\ Len(log) = TotalRecords(record_files_by_key) + 1
       /\ log[Len(log)][2] = None
       /\ \A i \in 1..(Len(log) - 1) :
             /\ log[i][2].kind = "RecordDiff"
             /\ i < Len(log) - 1 => log[i][2].record.date >= log[i + 1][2].record.date
             /\ log[i][2].diff =
                   log[i][2].record.balance
                   - (IF i < Len(log) - 1 THEN log[i + 1][2].record.balance ELSE 0)

January2024 == RecordFileKey(1, 2024)
February2024 == RecordFileKey(2, 2024)

\* C5: with one record in partition (1,2024) and one in (2,2024), the first
\* two previous() calls on a Latest cursor return the (2,2024) record with
\* diff taken against the (1,2024) record's balance, then the (1,2024) record.
C5_CrossPartitionDiff ==
    (/\ Len(log) >= 2
     /\ log[1][1] = "previous"
     /\ NonEmptyKeys(record_files_by_key) = {January2024, February2024}
     /\ Len(FileAt(record_files_by_key, January2024).records) = 1
     /\ Len(FileAt(record_files_by_key, February2024).records) = 1)
    => /\ log[1][2] =
             RecordDiff(FileAt(record_files_by_key, February2024).records[1],
                        FileAt(record_files_by_key, February2024).records[1].balance
                        - FileAt(record_files_by_key, January2024).records[1].balance)
       /\ log[2][2] =
             RecordDiff(FileAt(record_files_by_key, January2024).records[1],
                        FileAt(record_files_by_key, January2024).records[1].balance)

\* C4 as stated: after next() until None from an Oldest cursor, the results of
\* previous() on that cursor until it returns None are the reverse of the
\* forward results.
C4_BackwardUntilNoneIsReverse ==
    ForwardBackDone
    => UntilNone(ResultsOf(log, "previous")) = Reverse(UntilNone(ResultsOf(log, "next")))

\* C4 amended: after next() until None from an Oldest cursor, the first
\* previous() on that cursor returns None (it rests on the after-latest
\* sentinel), and the results of the previous() calls after it, until the
\* next None, are the reverse of the forward results.
C4_BackwardAfterFirstNoneIsReverse ==
    ForwardBackDone
    => /\ Head(ResultsOf(log, "previous")) = None
       /\ UntilNone(Tail(ResultsOf(log, "previous")))
             = Reverse(UntilNone(ResultsOf(log, "next")))

\* C4 witness: a forward pass over two partitions, then the walk back
C4_Witness ==
    /\ ForwardBackDone
    /\ Len(UntilNone(ResultsOf(log, "next"))) >= 2
    /\ Cardinality(NonEmptyKeys(record_files_by_key)) >= 2
    /\ Len(ResultsOf(log, "previous")) = Len(ResultsOf(log, "next")) + 1

-----------------------------------------------------------------------------
(* Properties of the account *)

IsSortedKeys(keys) ==
    \A i \in 1..Len(keys) : \A j \in (i + 1)..Len(keys) : KeyLess(keys[i], keys[j])

\* C6: Account.record_file_keys, which every cursor snapshots, is sorted
\* ascending by (year, month).
C6_RecordFileKeysSorted ==
    IsSortedKeys(record_file_keys_property(record_files_by_key, record_file_keys))

AllRecords(files) == UNION { Range(files[i].records) : i \in 1..Len(files) }

\* C7: current_balance is the balance of a record that no other record is
\* later than, and zero when the account has no record.
C7_CurrentBalanceIsLatest ==
    IF AllRecords(record_files_by_key) = {}
    THEN current_balance(record_files_by_key, disk, record_file_keys) = 0
    ELSE \E r \in AllRecords(record_files_by_key) :
            /\ \A q \in AllRecords(record_files_by_key) : q.date <= r.date
            /\ current_balance(record_files_by_key, disk, record_file_keys) = r.balance

-----------------------------------------------------------------------------
(* Properties of persistence *)

\* C9: cleanup() leaves the store not dirty, so a second cleanup() right after
\* it does not write the partition file again.
C9_CleanupLeavesClean ==
    ret.op = "cleanup"
    => /\ ~FileAt(record_files_by_key, ret.arg).dirty
       /\ ~cleanup_writes(record_files_by_key, ret.arg)

\* C10: a RecordFile built for a key right after cleanup() of that key's store
\* holds the same records, in the same order and with equal fields, as the
\* store in memory.
C10_FlushThenLoad ==
    [][(/\ ret.op = "cleanup"
        /\ ret'.op = "RecordFile"
        /\ ret'.arg = ret.arg)
       => ret'.val.records = FileAt(record_files_by_key, ret.arg).records]_vars

\* C10 witness: a store with appended records was flushed and loaded again
C10_Witness ==
    /\ ret.op = "RecordFile"
    /\ HasKey(record_files_by_key, ret.arg)
    /\ FileAt(record_files_by_key, ret.arg).dirty
    /\ Len(FileAt(record_files_by_key, ret.arg).records) > MaxInitLen
    /\ ret.val.records = FileAt(record_files_by_key, ret.arg).records
    /\ \E r \in Range(ret.val.records) : r.note # "None"
    /\ \E r \in Range(ret.val.records) : r.tag # "None"

-----------------------------------------------------------------------------
(* Properties of loading *)

IsSortedByDate(records) ==
    \A i \in 1..Len(records) : \A j \in (i + 1)..Len(records) :
        records[i].date <= records[j].date

\* C11: loading a partition whose file exists raises CorruptedRecordFileError
\* when the file cannot be deserialized or its records are not in ascending
\* date order, and then the account registers nothing; a missing file loads as
\* an empty store.
C11_LoadRejectsCorrupted ==
    [][(\/ ret'.op = "RecordFile"
        \/ /\ ret'.op = "get_record_file_or_default"
           /\ ~HasKey(record_files_by_key, ret'.arg))
       => IF ret'.arg \notin DOMAIN disk
          THEN ret'.val.kind = "RecordFile" /\ ret'.val.records = <<>>
          ELSE (\/ ~Loadable(disk[ret'.arg])
                \/ ~IsSortedByDate(Load(disk[ret'.arg])))
               => /\ ret'.val = Raised("CorruptedRecordFileError")
                  /\ record_files_by_key' = record_files_by_key
                  /\ record_file_keys' = record_file_keys]_vars

-----------------------------------------------------------------------------
(* Properties of the Backend *)

\* the Account object id is a value of the tracked map
Tracked(id) ==
    \E n \in DOMAIN backend.account_by_name : backend.account_by_name[n] = id

\* the map, the Account objects and the data folder are what they were
BackendUntouched ==
    /\ backend' = backend
    /\ accounts' = accounts
    /\ fs' = fs

\* C12: current_working_account is None or an Account that is at that moment
\* a value of the tracked map.
C12_CurrentIsTracked ==
    \/ backend.current_working_account = None
    \/ Tracked(backend.current_working_account.id)

\* C13: setting current_working_account to an Account that is not a value of
\* the map raises InvalidAccountError and leaves the current account as it
\* was; setting it to a tracked Account succeeds.
C13_SetCurrent ==
    [][ret'.op = "current_working_account"
       => IF Tracked(ret'.arg)
          THEN /\ ret'.val = None
               /\ backend'.current_working_account = AccountRef(ret'.arg)
          ELSE /\ ret'.val = Raised("InvalidAccountError")
               /\ backend'.current_working_account = backend.current_working_account
               /\ BackendUntouched]_vars

\* C13 witness: a deleted account was refused while another account stays
\* the current one
C13_Witness ==
    /\ ret.op = "current_working_account"
    /\ ret.val = Raised("InvalidAccountError")
    /\ backend.current_working_account # None
    /\ backend.current_working_account.id # ret.arg
    /\ Tracked(backend.current_working_account.id)
    /\ ~path_exists(fs, accounts[ret.arg].data_directory)

\* the name new is the name of a tracked account other than id
TakenByAnother(id, new) ==
    \E n \in DOMAIN backend.account_by_name :
        /\ backend.account_by_name[n] # id
        /\ accounts[backend.account_by_name[n]].data_directory = new

\* C14: rename_account raises InvalidAccountError when the account is not
\* tracked and AccountRenameConflictError when another tracked account has
\* the new name; in both cases the map, the account's name and the
\* directories are unchanged.
C14_RenameErrors ==
    [][ret'.op = "rename_account"
       => /\ ~Tracked(ret'.arg[1])
             => ret'.val = Raised("InvalidAccountError") /\ BackendUntouched
          /\ (Tracked(ret'.arg[1]) /\ TakenByAnother(ret'.arg[1], ret'.arg[2]))
             => ret'.val = Raised("AccountRenameConflictError") /\ BackendUntouched]_vars

\* C15: after a successful rename_account(account, new_name),
\* get_account_by_name(new_name) returns the same object and
\* get_account_by_name(old_name) returns None, account.name is new_name, every
\* store of the account is dirty, the directory is under the new name only, and
\* a flush of a store writes its partition file in the account's directory and
\* nowhere else.
C15_RenameMoves ==
    /\ [][(ret'.op = "rename_account" /\ ret'.val = None)
          => /\ map_get(backend_after_reload(accounts', backend', fs'), ret'.arg[2])
                   = AccountRef(ret'.arg[1])
             /\ map_get(backend_after_reload(accounts', backend', fs'),
                        accounts[ret'.arg[1]].data_directory) = None
             /\ accounts'[ret'.arg[1]].data_directory = ret'.arg[2]
             /\ \A i \in 1..Len(accounts'[ret'.arg[1]].record_files_by_key) :
                   accounts'[ret'.arg[1]].record_files_by_key[i].dirty
             /\ path_isdir(fs', ret'.arg[2])
             /\ fs'[ret'.arg[2]] = fs[accounts[ret'.arg[1]].data_directory]
             /\ ~path_exists(fs', accounts[ret'.arg[1]].data_directory)]_vars
    /\ [][(/\ ret'.op = "cleanup"
           /\ ret'.val = None
           /\ FileAt(accounts[ret'.arg[1]].record_files_by_key, ret'.arg[2]).dirty)
          => /\ DOMAIN fs' = DOMAIN fs
             /\ \A n \in DOMAIN fs :
                   n # accounts[ret'.arg[1]].data_directory => fs'[n] = fs[n]
             /\ fs'[accounts[ret'.arg[1]].data_directory].files[ret'.arg[2]] =
                   Dump(FileAt(accounts[ret'.arg[1]].record_files_by_key,
                               ret'.arg[2]).records)]_vars

\* C15 witness: a store of a renamed account (only a rename makes a store
\* dirty here) was flushed into the directory the account is tracked under
C15_Witness ==
    /\ ret.op = "cleanup"
    /\ ret.val = None
    /\ FileAt(accounts[ret.arg[1]].record_files_by_key, ret.arg[2]).dirty
    /\ accounts[ret.arg[1]].data_directory \in DOMAIN backend.account_by_name
    /\ backend.account_by_name[accounts[ret.arg[1]].data_directory] = ret.arg[1]
    /\ path_isdir(fs, accounts[ret.arg[1]].data_directory)
    /\ ret.arg[2] \in DOMAIN fs[accounts[ret.arg[1]].data_directory].files
    /\ Cardinality({ n \in DOMAIN fs : path_isdir(fs, n) }) = 1

\* C16: delete_account raises InvalidAccountError when the account is not
\* tracked; otherwise it removes the account's directory and drops the account
\* from the map, so that get_accounts() omits it and get_account_by_name(its
\* name) returns None, and an account that is not tracked never becomes
\* tracked again.
C16_DeleteDrops ==
    /\ [][ret'.op = "delete_account"
          => IF ~Tracked(ret'.arg)
             THEN ret'.val = Raised("InvalidAccountError")
             ELSE /\ ret'.val = None
                  /\ ~path_exists(fs', accounts[ret'.arg].data_directory)
                  /\ ret'.arg \notin
                        map_values(backend_after_reload(accounts', backend', fs'))
                  /\ map_get(backend_after_reload(accounts', backend', fs'),
                             accounts[ret'.arg].data_directory) = None]_vars
    /\ [][\A id \in 1..Len(accounts) :
             ~Tracked(id)
             => \A n \in DOMAIN backend'.account_by_name :
                   backend'.account_by_name[n] # id]_vars

\* the calls that reload the map from the data folder and do nothing else to it
ReloadingCalls ==
    {"reload_accounts", "get_accounts", "get_account_by_name",
     "account_created_handler"}

\* C17: reload_accounts, and get_accounts / get_account_by_name which reload
\* first, never replace or remove a tracked entry: every tracked name maps to
\* the identical Account object afterwards, that object is as it was, and
\* what is added are new objects for untracked sub-directories.
C17_ReloadKeepsTracked ==
    [][ret'.op \in ReloadingCalls
       => /\ \A n \in DOMAIN backend.account_by_name :
                /\ n \in DOMAIN backend'.account_by_name
                /\ backend'.account_by_name[n] = backend.account_by_name[n]
          /\ \A id \in 1..Len(accounts) : accounts'[id] = accounts[id]
          /\ \A n \in DOMAIN backend'.account_by_name \ DOMAIN backend.account_by_name :
                /\ path_isdir(fs', n)
                /\ backend'.account_by_name[n] > Len(accounts)
          /\ backend'.current_working_account = backend.current_working_account
          /\ ret'.op # "account_created_handler" => fs' = fs]_vars

\* C17 witness: a reload added a new account next to a tracked one whose
\* store is dirty
C17_Witness ==
    /\ ret.op = "account_created_handler"
    /\ ret.val = None
    /\ Len(accounts) = 2
    /\ backend.account_by_name[ret.arg] = 2
    /\ Tracked(1)
    /\ Len(accounts[1].record_files_by_key) = 1
    /\ accounts[1].record_files_by_key[1].dirty

\* C20: account creation accepts a name iff it is non-empty, holds no
\* punctuation character and no entry of that name exists in the data folder;
\* an empty name is rejected as empty, a name with punctuation as invalid, an
\* existing one as already existing, and a rejection changes nothing.
C20_CreationValidation ==
    [][ret'.op = "account_created_handler"
       => IF ret'.arg = <<>>
          THEN /\ ret'.val = ErrorDialog("Account Name Cannot Be Empty")
               /\ BackendUntouched
          ELSE IF \E i \in 1..Len(ret'.arg) : ret'.arg[i] \in Punctuation
          THEN /\ ret'.val = ErrorDialog("Invalid Account Name")
               /\ BackendUntouched
          ELSE IF ret'.arg \in DOMAIN fs
          THEN /\ ret'.val = ErrorDialog("Account Already Exists")
               /\ BackendUntouched
          ELSE /\ ret'.val = None
               /\ DOMAIN fs' = DOMAIN fs \cup {ret'.arg}
               /\ fs'[ret'.arg] = Directory(<<>>)
               /\ ret'.arg \in DOMAIN backend'.account_by_name]_vars

\* C20 witness: 'Groceries' was typed a second time and refused
C20_Witness ==
    /\ ret.op = "account_created_handler"
    /\ ret.arg = Groceries
    /\ ret.val = ErrorDialog("Account Already Exists")
    /\ Groceries \in DOMAIN backend.account_by_name
    /\ fs[Groceries] = Directory(<<>>)
    /\ DOMAIN fs = {Groceries, PreferenceFile}

-----------------------------------------------------------------------------
(* Properties of the registry of stores *)

NoDuplicates(keys) ==
    \A i \in 1..Len(keys) : \A j \in (i + 1)..Len(keys) : keys[i] # keys[j]

\* C18: get_record_file_or_default(key) returns the store already registered
\* for the key, unflushed appends included, and changes nothing; for an unknown
\* key it registers exactly one new store; neither the dict nor the key list
\* ever holds a key twice.
C18_OneStorePerKey ==
    /\ [][ret'.op = "get_record_file_or_default"
          => IF \E i \in 1..Len(record_files_by_key) :
                   record_files_by_key[i].key = ret'.arg
             THEN /\ record_files_by_key' = record_files_by_key
                  /\ record_file_keys' = record_file_keys
                  /\ \E i \in 1..Len(record_files_by_key) :
                        /\ record_files_by_key[i].key = ret'.arg
                        /\ ret'.val = record_files_by_key[i]
             ELSE /\ record_files_by_key' = Append(record_files_by_key, ret'.val)
                  /\ record_file_keys' = Append(record_file_keys, ret'.arg)
                  /\ ret'.val.key = ret'.arg
                  /\ ~ret'.val.dirty]_vars
    /\ [](/\ NoDuplicates(DictKeys(record_files_by_key))
          /\ NoDuplicates(record_file_keys))

\* C18 witness: the store of a known key came back with its unflushed append
C18_Witness ==
    /\ ret.op = "get_record_file_or_default"
    /\ ret.val.kind = "RecordFile"
    /\ ret.val.dirty
    /\ Len(ret.val.records) >= 1
    /\ Len(record_files_by_key) >= 2
    /\ ret.arg \notin DOMAIN disk

-----------------------------------------------------------------------------
(* Observers of the account: Observer.subscribe / Observer.unsubscribe *)

Bool(b) == [kind |-> "bool", value |-> b]

\* Observer.subscribe(sub): the list sub.__observers afterwards
after_subscribe(subscribed, observer) ==
    IF observer \in Range(subscribed) THEN subscribed
    ELSE Append(subscribed, observer)

\* list.remove(x): the list without the first element equal to x
RECURSIVE list_remove(_, _)
list_remove(s, x) ==
    IF s = <<>> THEN <<>>
    ELSE IF Head(s) = x THEN Tail(s)
    ELSE <<Head(s)>> \o list_remove(Tail(s), x)

\* Observer.unsubscribe(sub): the list sub.__observers afterwards
after_unsubscribe(subscribed, observer) ==
    IF observer \in Range(subscribed) THEN list_remove(subscribed, observer)
    ELSE subscribed

\* cursor.subscribe(account)
subscribe ==
    /\ scan = "none"
    /\ cursor.kind = "RecordCursor"
    /\ observers' = after_subscribe(observers, "cursor")
    /\ ret' = [op |-> "subscribe", arg |-> None, val |-> None]
    /\ UNCHANGED backend_vars
    /\ UNCHANGED <<now, disk, record_files_by_key, record_file_keys, cursor,
                   scan, log>>

\* cursor.unsubscribe(account)
unsubscribe ==
    /\ scan = "none"
    /\ cursor.kind = "RecordCursor"
    /\ observers' = after_unsubscribe(observers, "cursor")
    /\ ret' = [op |-> "unsubscribe", arg |-> None,
               val |-> Bool("cursor" \in Range(observers))]
    /\ UNCHANGED backend_vars
    /\ UNCHANGED <<now, disk, record_files_by_key, record_file_keys, cursor,
                   scan, log>>

\* RecordCursor(account, position): the one cursor kept under observation
OpenCursor(position) ==
    /\ cursor = NoCursor
    /\ NewCursor(position)

\* a cursor that a caller subscribes to its account
NextObserver ==
    \/ AddRecord
    \/ \E position \in {OldestPosition, LatestPosition} : OpenCursor(position)
    \/ Peek
    \/ Previous
    \/ NextRecord
    \/ subscribe
    \/ unsubscribe

\* an account built on an empty directory
InitObserver == Init /\ disk = <<>>

SpecObserver == InitObserver /\ [][NextObserver]_vars

\* C21: once a cursor is invalidated it stays so: whatever is done to the
\* account or the cursor afterwards, the cursor remains invalid and each
\* peek(), next() and previous() on it raises InvalidatedRecordCursorError; a
\* call that raised leaves the cursor invalid.
C21_InvalidationPermanent ==
    /\ [][(cursor.kind = "RecordCursor" /\ ~cursor.valid /\ ret'.op # "RecordCursor")
          => /\ cursor'.kind = "RecordCursor"
             /\ ~cursor'.valid
             /\ (ret'.op \in CursorCalls
                   => ret'.val = Raised("InvalidatedRecordCursorError"))]_vars
    /\ [][(ret'.op \in CursorCalls
             /\ ret'.val = Raised("InvalidatedRecordCursorError"))
          => (cursor'.kind = "RecordCursor" /\ ~cursor'.valid)]_vars

\* C21 witness: the cursor raised after it was unsubscribed again and the
\* account had taken every append it can
C21_Witness ==
    /\ ret.op \in CursorCalls
    /\ ret.val = Raised("InvalidatedRecordCursorError")
    /\ "cursor" \notin Range(observers)
    /\ TotalRecords(record_files_by_key) = MaxRecords

-----------------------------------------------------------------------------
(* RecordCursor built from a Record, as the calendar page does *)

\* RecordFileKey(record.date.month, record.date.year)
key_of_record(record) == RecordFileKey(month_of(record.date), year_of(record.date))

\* record_file.records.index(record)
index_of_record(records, record) == Index(records, record)

\* RecordCursor.__init__ with a Record raises ValueError: list.index finds no
\* such record in the partition, or no such key in the snapshot taken before
\* get_record_file_or_default ran
seek_raises(files, d, keys, record) ==
    \/ index_of_record(RecordsOf(files, d, key_of_record(record)), record) = -1
    \/ Index(record_file_keys_property(files, keys), key_of_record(record)) = -1

\* RecordCursor.__init__ with a Record that is found
RecordCursorAt(files, d, keys, record) ==
    [kind |-> "RecordCursor",
     record_file_keys |-> record_file_keys_property(files, keys),
     record_position |->
        ValidPosition(
            Index(record_file_keys_property(files, keys), key_of_record(record)),
            index_of_record(RecordsOf(files, d, key_of_record(record)), record)),
     valid |-> TRUE]

\* the records a caller may hold: any input stamped with any tick
SeekRecords ==
    { Record(Inputs[i].tag, Inputs[i].balance, t, Inputs[i].note) :
         i \in 1..Len(Inputs), t \in Ticks }

\* RecordCursor(account, record); the partition of the record's month is
\* registered by get_record_file_or_default even when the constructor raises
NewCursorAt(record) ==
    /\ scan = "none"
    /\ IF ~HasKey(record_files_by_key, key_of_record(record))
          /\ load_raises(disk, key_of_record(record))
       THEN /\ ret' = [op |-> "RecordCursor(record)", arg |-> record,
                       val |-> Raised("CorruptedRecordFileError")]
            /\ UNCHANGED <<record_files_by_key, record_file_keys, cursor>>
       ELSE /\ record_files_by_key' =
                  files_after_get(record_files_by_key, disk, key_of_record(record))
            /\ record_file_keys' =
                  keys_after_get(record_files_by_key, record_file_keys,
                                 key_of_record(record))
            /\ IF seek_raises(record_files_by_key, disk, record_file_keys, record)
               THEN /\ ret' = [op |-> "RecordCursor(record)", arg |-> record,
                               val |-> Raised("ValueError")]
                    /\ UNCHANGED cursor
               ELSE /\ ret' = [op |-> "RecordCursor(record)", arg |-> record,
                               val |-> None]
                    /\ cursor' = RecordCursorAt(record_files_by_key, disk,
                                                record_file_keys, record)
    /\ UNCHANGED backend_vars
    /\ UNCHANGED <<now, disk, observers, scan, log>>

\* the calendar page: a cursor on a record, read with peek()
NextSeek ==
    \/ AddRecord
    \/ \E record \in SeekRecords : NewCursorAt(record)
    \/ Peek

SpecSeek == Init /\ [][NextSeek]_vars

\* the record is held by the partition of its own month
InOwnPartition(files, record) ==
    \E i \in 1..Len(files) :
       /\ files[i].key = RecordFileKey(month_of(record.date), year_of(record.date))
       /\ record \in Range(files[i].records)

\* the balances a record's diff may be taken against: the balance of a record
\* that comes right before it in time, or zero when no record is older
PrecedingBalances(files, record) ==
    { q.balance : q \in { p \in AllRecords(files) :
                             /\ p # record
                             /\ p.date <= record.date
                             /\ ~\E s \in AllRecords(files) :
                                    p.date < s.date /\ s.date < record.date } }
    \cup (IF \E p \in AllRecords(files) : p.date < record.date THEN {} ELSE {0})

\* C22: a cursor built from a record held by the partition of its month is
\* positioned on that record: peek() returns it with diff = its balance minus
\* the balance of the record that precedes it in time (0 if none); built from
\* a record that partition does not hold, the constructor fails.
C22_CursorAtRecord ==
    [][ret'.op = "RecordCursor(record)"
       => IF InOwnPartition(record_files_by_key, ret'.arg)
          THEN /\ ret'.val = None
               /\ cursor'.kind = "RecordCursor"
               /\ peek(record_files_by_key', disk', cursor').kind = "RecordDiff"
               /\ peek(record_files_by_key', disk', cursor').record = ret'.arg
               /\ \E b \in PrecedingBalances(record_files_by_key, ret'.arg) :
                     peek(record_files_by_key', disk', cursor').diff
                        = ret'.arg.balance - b
          ELSE ret'.val.kind = "raise"]_vars

-----------------------------------------------------------------------------
(* Properties of stepping *)

\* the record under a valid position of the cursor
RecordUnder(c, position) ==
    get_record_from_position(record_files_by_key, disk, c.record_file_keys, position)

\* record q comes right after record r in time: it is not older and no record
\* of the account lies strictly between the two
RightAfter(r, q) ==
    /\ r.date <= q.date
    /\ ~\E s \in AllRecords(record_files_by_key) : r.date < s.date /\ s.date < q.date

\* position q is where a step from position p towards newer records must end
SteppedNewer(c, p, q) ==
    CASE p.kind = "Latest" -> q = LatestPosition
      [] p.kind = "Oldest" ->
            IF AllRecords(record_files_by_key) = {} THEN q = LatestPosition
            ELSE /\ q.kind = "Valid"
                 /\ \A s \in AllRecords(record_files_by_key) :
                       RecordUnder(c, q).date <= s.date
      [] p.kind = "Valid" ->
            IF q.kind = "Valid"
            THEN q # p /\ RightAfter(RecordUnder(c, p), RecordUnder(c, q))
            ELSE /\ q = LatestPosition
                 /\ \A s \in AllRecords(record_files_by_key) :
                       s.date <= RecordUnder(c, p).date

\* position q is where a step from position p towards older records must end
SteppedOlder(c, p, q) ==
    CASE p.kind = "Oldest" -> q = OldestPosition
      [] p.kind = "Latest" ->
            IF AllRecords(record_files_by_key) = {} THEN q = OldestPosition
            ELSE /\ q.kind = "Valid"
                 /\ \A s \in AllRecords(record_files_by_key) :
                       s.date <= RecordUnder(c, q).date
      [] p.kind = "Valid" ->
            IF q.kind = "Valid"
            THEN q # p /\ RightAfter(RecordUnder(c, q), RecordUnder(c, p))
            ELSE /\ q = OldestPosition
                 /\ \A s \in AllRecords(record_files_by_key) :
                       RecordUnder(c, p).date <= s.date

\* C23: on a valid cursor next() and previous() return what peek() would have
\* returned right before the call, and leave the cursor on the next newer (for
\* next) or next older (for previous) record, or on the sentinel of that
\* direction when there is none; nothing else of the cursor changes.
C23_PeekThenStep ==
    [][(ret'.op \in {"next", "previous"} /\ cursor.valid)
       => /\ ret'.val = peek(record_files_by_key, disk, cursor)
          /\ cursor' = [cursor EXCEPT !.record_position = cursor'.record_position]
          /\ IF ret'.op = "next"
             THEN SteppedNewer(cursor, cursor.record_position, cursor'.record_position)
             ELSE SteppedOlder(cursor, cursor.record_position, cursor'.record_position)]_vars

\* C24: peek() changes nothing: the cursor's position, key snapshot and
\* validity flag, and the account, are the same after the call as before, and
\* on a valid cursor a peek() that follows a peek() returns the same result.
C24_PeekIsPure ==
    [][ret'.op = "peek"
       => /\ cursor'.record_position = cursor.record_position
          /\ cursor'.record_file_keys = cursor.record_file_keys
          /\ cursor'.valid = cursor.valid
          /\ record_files_by_key' = record_files_by_key
          /\ record_file_keys' = record_file_keys
          /\ (cursor.valid /\ ret.op = "peek") => ret'.val = ret.val
          /\ peek(record_files_by_key', disk', cursor')
                = peek(record_files_by_key, disk, cursor)]_vars

\* C24 witness: peek() on a valid cursor that rests on the second record of
\* its partition
C24_Witness ==
    /\ ret.op = "peek"
    /\ cursor.valid
    /\ ret.val.kind = "RecordDiff"
    /\ cursor.record_position.kind = "Valid"
    /\ cursor.record_position.record_index >= 1
    /\ ret.val.diff # ret.val.record.balance

\* C25: the sentinels absorb steps in their own direction: previous() on a
\* valid cursor at the before-oldest sentinel returns None and leaves it there,
\* and next() at the after-latest sentinel returns None and leaves it there.
C25_SentinelsAbsorb ==
    /\ [][(/\ ret'.op = "previous"
           /\ cursor.valid
           /\ cursor.record_position = OldestPosition)
          => (ret'.val = None /\ cursor'.record_position = OldestPosition)]_vars
    /\ [][(/\ ret'.op = "next"
           /\ cursor.valid
           /\ cursor.record_position = LatestPosition)
          => (ret'.val = None /\ cursor'.record_position = LatestPosition)]_vars
    /\ [](cursor.kind = "RecordCursor"
          => /\ previous_position(record_files_by_key, disk, cursor.record_file_keys,
                                  OldestPosition) = OldestPosition
             /\ next_position(record_files_by_key, disk, cursor.record_file_keys,
                              LatestPosition) = LatestPosition)

\* C25 witness: previous() returned None on an account that holds records and
\* left the cursor on the before-oldest sentinel, so it was called there
C25_Witness ==
    /\ ret.op = "previous"
    /\ ret.val = None
    /\ cursor.valid
    /\ cursor.record_position = OldestPosition
    /\ TotalRecords(record_files_by_key) >= 1
    /\ Len(cursor.record_file_keys) >= 2

\* the in-range positions of a cursor: (partition index, record index) pairs
\* of the non-empty partitions of its snapshot
ValidPositions(c) ==
    { p \in [kind : {"Valid"},
             record_file_index : 0..(Len(c.record_file_keys) - 1),
             record_index : 0..MaxRecords] :
        p.record_index <
           Len(RecordsOf(record_files_by_key, disk,
                         c.record_file_keys[p.record_file_index + 1])) }

\* a position a step may end on
Reachable(c, p) == p \in {OldestPosition, LatestPosition} \cup ValidPositions(c)

StepNewer(c, p) == next_position(record_files_by_key, disk, c.record_file_keys, p)
StepOlder(c, p) == previous_position(record_files_by_key, disk, c.record_file_keys, p)

\* C26: stepping forward and backward are inverse on valid positions: a step
\* back from where a forward step ended on a record returns to the start, and
\* the other way round; every step, and the cursor itself, ends on a sentinel
\* or on an in-range position of a non-empty partition.
C26_StepsAreInverse ==
    cursor.kind = "RecordCursor"
    => /\ Reachable(cursor, cursor.record_position)
       /\ \A p \in ValidPositions(cursor) \cup {OldestPosition, LatestPosition} :
             /\ Reachable(cursor, StepNewer(cursor, p))
             /\ Reachable(cursor, StepOlder(cursor, p))
       /\ \A p \in ValidPositions(cursor) :
             /\ StepNewer(cursor, p).kind = "Valid"
                   => StepOlder(cursor, StepNewer(cursor, p)) = p
             /\ StepOlder(cursor, p).kind = "Valid"
                   => StepNewer(cursor, StepOlder(cursor, p)) = p

\* C26 witness: next() carried the cursor over an empty partition onto the
\* first record of the one after it
C26_Witness ==
    /\ ret.op = "next"
    /\ cursor.valid
    /\ cursor.record_position = ValidPosition(2, 0)
    /\ Len(RecordsOf(record_files_by_key, disk, cursor.record_file_keys[2])) = 0
    /\ StepOlder(cursor, cursor.record_position) = ValidPosition(0, 0)

-----------------------------------------------------------------------------
(* Properties of whole traversals *)

\* every record of the account, partition after partition
RECURSIVE RecordsFrom(_, _)
RecordsFrom(files, i) ==
    IF i > Len(files) THEN <<>> ELSE files[i].records \o RecordsFrom(files, i + 1)

\* how often x occurs in a sequence
RECURSIVE Count(_, _)
Count(s, x) ==
    IF s = <<>> THEN 0
    ELSE (IF Head(s) = x THEN 1 ELSE 0) + Count(Tail(s), x)

\* the results are RecordDiffs that return each record of the account exactly
\* as often as the account holds it
EachRecordOnce(results) ==
    /\ Len(results) = TotalRecords(record_files_by_key)
    /\ \A i \in 1..Len(results) : results[i].kind = "RecordDiff"
    /\ \A r \in AllRecords(record_files_by_key) :
          Count([i \in 1..Len(results) |-> results[i].record], r)
             = Count(RecordsFrom(record_files_by_key, 1), r)

\* a loop of next() calls on a cursor built with OldestPosition has met None
ForwardScanDone == scan \in {"back", "done"} /\ log # <<>> /\ log[1][1] = "next"

\* C27: a traversal loop over an account of N records ends: previous() from a
\* Latest cursor, and next() from an Oldest cursor, returns None after exactly
\* N results that are not None, each record being returned exactly once, and
\* every loop that was started reaches that None.
C27_TraversalExhaustive ==
    /\ [](BackwardScanDone
          => /\ Len(log) = TotalRecords(record_files_by_key) + 1
             /\ log[Len(log)][2] = None
             /\ EachRecordOnce(UntilNone(ResultsOf(log, "previous"))))
    /\ [](ForwardScanDone
          => /\ Len(ResultsOf(log, "next")) = TotalRecords(record_files_by_key) + 1
             /\ Last(ResultsOf(log, "next")) = None
             /\ EachRecordOnce(UntilNone(ResultsOf(log, "next"))))
    /\ (scan = "previous" ~> scan = "done")
    /\ (scan = "next" ~> scan = "back")

\* C27 witness: a backward loop over two partitions has ended after returning
\* both records of one of them and nothing twice
C27_Witness ==
    /\ BackwardScanDone
    /\ Len(log) = MaxRecords + 1
    /\ Len(record_files_by_key) >= 2
    /\ \E i \in 1..Len(record_files_by_key) : Len(record_files_by_key[i].records) >= 2

-----------------------------------------------------------------------------
(* Properties of the tracked map *)

\* C28: every entry name -> account of the tracked map has account.name = name
\* and the account's directory is the sub-directory of the data folder called
\* name, in every reachable state, also after a rename_account whose directory
\* move failed.
C28_MapKeyedByName ==
    \A n \in DOMAIN backend.account_by_name :
       /\ account_name(accounts[backend.account_by_name[n]]) = n
       /\ accounts[backend.account_by_name[n]].data_directory = n
       /\ n \in DOMAIN fs
       /\ fs[n].kind = "dir"

-----------------------------------------------------------------------------
(* Properties of appends *)

\* C29: every record a partition holds carries a timestamp of the partition's
\* own (month, year), and the records of a partition are in non-decreasing
\* timestamp order, after any sequence of add_record calls under a clock that
\* never runs backwards, calls that straddle a month boundary included.
C29_RecordsInOwnPartition ==
    \A i \in 1..Len(record_files_by_key) :
       /\ \A r \in Range(record_files_by_key[i].records) :
             /\ month_of(r.date) = record_files_by_key[i].key.month_number
             /\ year_of(r.date) = record_files_by_key[i].key.year_number
       /\ \A a \in 1..Len(record_files_by_key[i].records) :
             \A b \in (a + 1)..Len(record_files_by_key[i].records) :
                record_files_by_key[i].records[a].date
                   <= record_files_by_key[i].records[b].date

-----------------------------------------------------------------------------
(* The record page: _Content.__record_created_handler *)

\* Decimal(amount_str) for the texts typed here: an optionally signed run of
\* digits, blanks around it ignored; anything else raises
py_decimal(text) == py_int(text)

\* what the dialog passes as the amount
AmountTexts == { <<"5", "0">>, <<"-", "2", "0">>, <<"x">> }

\* what the dialog passes as (tag, note): either may be left empty
TagsAndNotes == { <<"food", "">>, <<"", "refund">> }

\* `text if len(text) > 0 else None`
text_or_none(text) == IF text = "" THEN "None" ELSE text

\* __record_created_handler(amount_str, note, tag, dialog); t1, t2, t3 are the
\* clock reads of the add_record call it makes
record_created_handler(amount_str, note, tag, t1, t2, t3) ==
    /\ scan = "none"
    /\ TotalRecords(record_files_by_key) < MaxRecords
    /\ now <= t1 /\ t1 <= t2 /\ t2 <= t3
    /\ IF ~py_decimal(amount_str).ok
       THEN /\ ret' = [op |-> "record_created_handler", arg |-> amount_str,
                       val |-> None]
            /\ UNCHANGED <<now, record_files_by_key, record_file_keys, cursor>>
       ELSE LET new_balance ==
                    current_balance(record_files_by_key, disk, record_file_keys)
                    + py_decimal(amount_str).value
                new_record ==
                    Record(text_or_none(tag), new_balance, t3, text_or_none(note))
                record_file_key == RecordFileKey(month_of(t1), year_of(t2))
            IN /\ record_files_by_key' =
                     file_add_record(
                        files_after_get(record_files_by_key, disk, record_file_key),
                        record_file_key, new_record)
               /\ record_file_keys' =
                     keys_after_get(record_files_by_key, record_file_keys,
                                    record_file_key)
               /\ cursor' = notify(observers, cursor, NewRecordMessage(new_record))
               /\ ret' = [op |-> "record_created_handler", arg |-> amount_str,
                          val |-> new_record]
               /\ now' = t3
    /\ UNCHANGED backend_vars
    /\ UNCHANGED <<disk, observers, scan, log>>

RecordCreated ==
    \E amount_str \in AmountTexts : \E typed \in TagsAndNotes :
      \E t1 \in now..MaxTime : \E t2 \in t1..MaxTime : \E t3 \in t2..MaxTime :
         record_created_handler(amount_str, typed[2], typed[1], t1, t2, t3)

\* the record page, and the calendar page opening the partitions of its months
NextRecordPage ==
    \/ RecordCreated
    \/ \E m \in 1..Len(Months) : get_record_file_or_default(Months[m])

SpecRecordPage == Init /\ [][NextRecordPage]_vars

\* the amount a typed text stands for
TypedAmount(text) ==
    IF text = <<"5", "0">> THEN 50 ELSE IF text = <<"-", "2", "0">> THEN 0 - 20 ELSE 0

\* C30: recording an amount through the record page stores the balance
\* current_balance + amount: a Latest cursor opened right afterwards returns
\* the new record with diff equal to the amount, and current_balance has
\* changed by exactly the amount.
C30_RecordedAmount ==
    [][(ret'.op = "record_created_handler" /\ ret'.val # None)
       => /\ ret'.val.balance =
                current_balance(record_files_by_key, disk, record_file_keys)
                + TypedAmount(ret'.arg)
          /\ peek(record_files_by_key', disk',
                  RecordCursor(record_files_by_key', disk', record_file_keys',
                               LatestPosition))
                = RecordDiff(ret'.val, TypedAmount(ret'.arg))
          /\ current_balance(record_files_by_key', disk', record_file_keys')
                = current_balance(record_files_by_key, disk, record_file_keys)
                  + TypedAmount(ret'.arg)]_vars

====
